---- MODULE Spec2Model ----
(***************************************************************************)
(* Model of the TCP relay wire protocol of tox: the packet kind            *)
(* classifier, the per-kind packet codecs and the length-prefixed frame    *)
(* of src/toxcore/tcp/packet.rs, and the three-message handshake of        *)
(* src/toxcore/tcp/handshake.rs.                                           *)
(***************************************************************************)
EXTENDS Integers, Sequences, FiniteSets, TLC

(***************************************************************************)
(* Sizes fixed by the wire format.                                         *)
(***************************************************************************)
PUBLICKEYBYTES == 32
NONCEBYTES == 24
SEALEDBYTES == 72
MACBYTES == 16
U8 == 256
U16 == 65536

(***************************************************************************)
(* Bounds of the model.                                                    *)
(***************************************************************************)
MaxData == 2
NumKeys == 2

Byte == 0 .. (U8 - 1)

Min(a, b) == IF a < b THEN a ELSE b

Take(s, n) == SubSeq(s, 1, n)

Drop(s, n) == SubSeq(s, n + 1, Len(s))

Fill(n, b) == [i \in 1 .. n |-> b]

(***************************************************************************)
(* Results of a nom parser: Done(rest, value), Incomplete or Error.        *)
(***************************************************************************)
Done(v, rest) == [tag |-> "Done", value |-> v, rest |-> rest]

Incomplete == [tag |-> "Incomplete"]

ParseError == [tag |-> "Error"]

IsDone(r) == r.tag = "Done"

(***************************************************************************)
(* enum Kind and its discriminants (`kind as u8`); Data follows            *)
(* OnionDataResponse = 9 without an explicit number.                       *)
(***************************************************************************)
ControlKinds ==
    << "RouteRequest", "RouteResponse", "ConnectNotification",
       "DisconnectNotification", "PingRequest", "PongResponse",
       "OobSend", "OobReceive", "OnionDataRequest", "OnionDataResponse" >>

Kind == { ControlKinds[i] : i \in 1 .. Len(ControlKinds) } \cup {"Data"}

KindAsU8(k) ==
    IF k = "Data"
    THEN Len(ControlKinds)
    ELSE (CHOOSE i \in 1 .. Len(ControlKinds) : ControlKinds[i] = k) - 1

(***************************************************************************)
(* nom_from_bytes!(Kind, map_opt!(ne_u8, |byte| ...)): the closure.        *)
(* "None" is Option::None.                                                 *)
(***************************************************************************)
KindOfByteOffByOne(byte) ==
    IF byte >= 16 /\ byte <= 240
    THEN "Data"
    ELSE IF byte <= 9 THEN ControlKinds[byte + 1] ELSE "None"

KindOfByte(byte) ==
    IF byte >= 16 /\ byte < 240
    THEN "Data"
    ELSE CASE byte = 0 -> "RouteRequest"
           [] byte = 1 -> "RouteResponse"
           [] byte = 2 -> "ConnectNotification"
           [] byte = 3 -> "DisconnectNotification"
           [] byte = 4 -> "PingRequest"
           [] byte = 5 -> "PongResponse"
           [] byte = 6 -> "OobSend"
           [] byte = 7 -> "OobReceive"
           [] byte = 8 -> "OnionDataRequest"
           [] byte = 9 -> "OnionDataResponse"
           [] OTHER -> "None"

(* The parser around the closure: one byte is consumed. *)
Kind_nom_parse_bytes(bytes) ==
    IF Len(bytes) < 1
    THEN Incomplete
    ELSE IF KindOfByte(bytes[1]) = "None"
         THEN ParseError
         ELSE Done(KindOfByte(bytes[1]), Drop(bytes, 1))

(***************************************************************************)
(* PublicKey::nom_parse_bytes and Nonce::nom_parse_bytes of crypto_core:   *)
(* a fixed number of bytes is taken.                                       *)
(***************************************************************************)
TakeBytes(bytes, n) ==
    IF Len(bytes) < n THEN Incomplete ELSE Done(Take(bytes, n), Drop(bytes, n))

PublicKey_nom_parse_bytes(bytes) == TakeBytes(bytes, PUBLICKEYBYTES)

Nonce_nom_parse_bytes(bytes) == TakeBytes(bytes, NONCEBYTES)

(***************************************************************************)
(* Option values, and the outcome of a call that panics.                   *)
(***************************************************************************)
Some(v) == [tag |-> "Some", value |-> v]

None == [tag |-> "None"]

Panic == [tag |-> "Panic"]

IsSome(o) == o.tag = "Some"

(* NomFromBytes::nom_from_bytes: the value of a finished parse, or None. *)
nom_from_bytes(r) == IF IsDone(r) THEN Some(r.value) ELSE None

(***************************************************************************)
(* Integer parsers and writers.  A u64 exceeds the integers of the model   *)
(* checker, so it is held as its four 16-bit limbs, least significant      *)
(* first; its bytes are computed from the limbs by division.               *)
(***************************************************************************)
be_u8(bytes) ==
    IF Len(bytes) < 1 THEN Incomplete ELSE Done(bytes[1], Drop(bytes, 1))

be_u16(bytes) ==
    IF Len(bytes) < 2
    THEN Incomplete
    ELSE Done(bytes[1] * U8 + bytes[2], Drop(bytes, 2))

write_u16_BigEndian(n) == << n \div U8, n % U8 >>

U64Byte(v, i) ==
    LET limb == v[(i \div 2) + 1]
    IN  IF i % 2 = 0 THEN limb % U8 ELSE limb \div U8

write_u64_BigEndian(v) == [i \in 1 .. 8 |-> U64Byte(v, 8 - i)]

write_u64_LittleEndian(v) == [i \in 1 .. 8 |-> U64Byte(v, i - 1)]

le_u64(bytes) ==
    IF Len(bytes) < 8
    THEN Incomplete
    ELSE Done([j \in 1 .. 4 |-> bytes[2 * j - 1] + U8 * bytes[2 * j]],
              Drop(bytes, 8))

(***************************************************************************)
(* The packet types.  The field `type` stands for the Rust type of the     *)
(* value; tcp_packet!(T) makes kind() return Kind::T.                      *)
(***************************************************************************)
PacketKind(p) == p.type

RouteRequest_to_bytes(p) == p.peer_pk

RouteRequest_nom_parse_bytes(bytes) ==
    LET pk == PublicKey_nom_parse_bytes(bytes)
    IN  IF ~IsDone(pk) THEN pk
        ELSE Done([type |-> "RouteRequest", peer_pk |-> pk.value], pk.rest)

RouteResponse_to_bytes(p) == << p.connection_id >> \o p.pk

RouteResponse_nom_parse_bytes(bytes) ==
    LET id == be_u8(bytes)
    IN  IF ~IsDone(id) THEN id
        ELSE LET pk == PublicKey_nom_parse_bytes(id.rest)
             IN  IF ~IsDone(pk) THEN pk
                 ELSE Done([type |-> "RouteResponse",
                            connection_id |-> id.value, pk |-> pk.value],
                           pk.rest)

ConnectNotification_to_bytes(p) == << p.connection_id >>

ConnectNotification_nom_parse_bytes(bytes) ==
    LET id == be_u8(bytes)
    IN  IF ~IsDone(id) THEN id
        ELSE Done([type |-> "ConnectNotification", connection_id |-> id.value],
                  id.rest)

DisconnectNotification_to_bytes(p) == << p.connection_id >>

DisconnectNotification_nom_parse_bytes(bytes) ==
    LET id == be_u8(bytes)
    IN  IF ~IsDone(id) THEN id
        ELSE Done([type |-> "DisconnectNotification",
                   connection_id |-> id.value], id.rest)

PingRequest_to_bytes_BigEndian(p) == write_u64_BigEndian(p.ping_id)

PingRequest_to_bytes(p) == write_u64_LittleEndian(p.ping_id)

PingRequest_nom_parse_bytes(bytes) ==
    LET id == le_u64(bytes)
    IN  IF ~IsDone(id) THEN id
        ELSE Done([type |-> "PingRequest", ping_id |-> id.value], id.rest)

PongResponse_to_bytes(p) == write_u64_LittleEndian(p.ping_id)

PongResponse_nom_parse_bytes(bytes) ==
    LET id == le_u64(bytes)
    IN  IF ~IsDone(id) THEN id
        ELSE Done([type |-> "PongResponse", ping_id |-> id.value], id.rest)

OobSend_to_bytes(p) == p.destination_pk \o p.data

OobSend_nom_parse_bytes(bytes) ==
    LET pk == PublicKey_nom_parse_bytes(bytes)
    IN  IF ~IsDone(pk) THEN pk
        ELSE Done([type |-> "OobSend", destination_pk |-> pk.value,
                   data |-> pk.rest], << >>)

OobReceive_to_bytes(p) == p.sender_pk \o p.data

OobReceive_nom_parse_bytes(bytes) ==
    LET pk == PublicKey_nom_parse_bytes(bytes)
    IN  IF ~IsDone(pk) THEN pk
        ELSE Done([type |-> "OobReceive", sender_pk |-> pk.value,
                   data |-> pk.rest], << >>)

Data_to_bytes(p) == << p.connection_id >> \o p.data

Data_nom_parse_bytes(bytes) ==
    LET id == be_u8(bytes)
    IN  IF ~IsDone(id) THEN id
        ELSE Done([type |-> "Data", connection_id |-> id.value,
                   data |-> id.rest], << >>)

(* The types that implement TcpPacketable. *)
PacketTypes ==
    { "RouteRequest", "RouteResponse", "ConnectNotification",
      "DisconnectNotification", "PingRequest", "PongResponse",
      "OobSend", "OobReceive", "Data" }

(* P::to_bytes and P::nom_parse_bytes, by the type P. *)
ToBytes(p) ==
    CASE p.type = "RouteRequest" -> RouteRequest_to_bytes(p)
      [] p.type = "RouteResponse" -> RouteResponse_to_bytes(p)
      [] p.type = "ConnectNotification" -> ConnectNotification_to_bytes(p)
      [] p.type = "DisconnectNotification" -> DisconnectNotification_to_bytes(p)
      [] p.type = "PingRequest" -> PingRequest_to_bytes(p)
      [] p.type = "PongResponse" -> PongResponse_to_bytes(p)
      [] p.type = "OobSend" -> OobSend_to_bytes(p)
      [] p.type = "OobReceive" -> OobReceive_to_bytes(p)
      [] p.type = "Data" -> Data_to_bytes(p)

NomParseBytes(type, bytes) ==
    CASE type = "RouteRequest" -> RouteRequest_nom_parse_bytes(bytes)
      [] type = "RouteResponse" -> RouteResponse_nom_parse_bytes(bytes)
      [] type = "ConnectNotification" -> ConnectNotification_nom_parse_bytes(bytes)
      [] type = "DisconnectNotification" -> DisconnectNotification_nom_parse_bytes(bytes)
      [] type = "PingRequest" -> PingRequest_nom_parse_bytes(bytes)
      [] type = "PongResponse" -> PongResponse_nom_parse_bytes(bytes)
      [] type = "OobSend" -> OobSend_nom_parse_bytes(bytes)
      [] type = "OobReceive" -> OobReceive_nom_parse_bytes(bytes)
      [] type = "Data" -> Data_nom_parse_bytes(bytes)

(***************************************************************************)
(* struct TcpPacket { packet_type, payload } and its frame.                *)
(***************************************************************************)
(* unimplemented!() is the first statement of encrypt and of decrypt: the  *)
(* call panics before the statement that follows it.                       *)
TcpPacket_encrypt(packet) == Panic

TcpPacket_decrypt(payload) == Panic

TcpPacket_new(packet) ==
    LET payload == TcpPacket_encrypt(packet)
    IN  IF payload.tag = "Panic"
        THEN Panic
        ELSE Some([packet_type |-> PacketKind(packet), payload |-> payload.value])

TcpPacket_kind(t) == t.packet_type

TcpPacket_extract(t, type) ==
    LET decrypted == TcpPacket_decrypt(t.payload)
    IN  IF decrypted.tag = "Panic"
        THEN Panic
        ELSE nom_from_bytes(NomParseBytes(type, decrypted.value))

TcpPacket_nom_parse_bytes_Partial(bytes) ==
    LET length == be_u16(bytes)
    IN  IF ~IsDone(length) THEN length
        ELSE Done([packet_type |-> "RouteRequest",
                   payload |-> Take(length.rest,
                                    Min(length.value, Len(length.rest)))],
                  Drop(length.rest, Min(length.value, Len(length.rest))))

TcpPacket_nom_parse_bytes(bytes) ==
    LET length == be_u16(bytes)
    IN  IF ~IsDone(length) THEN length
        ELSE LET payload == TakeBytes(length.rest, length.value)
             IN  IF ~IsDone(payload) THEN payload
                 ELSE Done([packet_type |-> "RouteRequest",
                            payload |-> payload.value], payload.rest)

(* `self.payload.len() as u16` keeps the low 16 bits of the length. *)
TcpPacket_to_bytes(t) ==
    write_u16_BigEndian(Len(t.payload) % U16) \o t.payload

(***************************************************************************)
(* Values the calls are made with.                                         *)
(***************************************************************************)
PkOf(k) == [i \in 1 .. PUBLICKEYBYTES |-> (16 * k + i) % U8]

TestPks == { PkOf(k) : k \in 1 .. NumKeys }

ConnIds == {0, 16, 239, 255}

MaxLimb == U16 - 1

PingIds ==
    { << 0, 0, 0, 0 >>, << 1, 0, 0, 0 >>, << 1800, 1286, 772, 258 >>,
      << MaxLimb, MaxLimb, MaxLimb, MaxLimb >> }

RECURSIVE SeqsUpTo(_, _)
SeqsUpTo(S, n) ==
    IF n = 0
    THEN { << >> }
    ELSE LET shorter == SeqsUpTo(S, n - 1)
         IN  shorter \cup { << b >> \o t : b \in S, t \in shorter }

DataTails == SeqsUpTo({7, 255}, MaxData)

FixedPackets ==
    [type : {"RouteRequest"}, peer_pk : TestPks]
    \cup [type : {"RouteResponse"}, connection_id : ConnIds, pk : TestPks]
    \cup [type : {"ConnectNotification", "DisconnectNotification"},
          connection_id : ConnIds]
    \cup [type : {"PingRequest", "PongResponse"}, ping_id : PingIds]

TailPackets ==
    [type : {"OobSend"}, destination_pk : TestPks, data : DataTails]
    \cup [type : {"OobReceive"}, sender_pk : TestPks, data : DataTails]
    \cup [type : {"Data"}, connection_id : ConnIds, data : DataTails]

Packets == FixedPackets \cup TailPackets

FixedTypes == { p.type : p \in FixedPackets }

(***************************************************************************)
(* The Crypto Port, as an ideal authenticated cipher.  `ledger` is the set *)
(* of seals made so far; a ciphertext is MACBYTES longer than its          *)
(* plaintext, differs from every earlier one, and opens only under the     *)
(* key and nonce it was sealed with.                                       *)
(***************************************************************************)
Ciphertext(ledger, pt) ==
    Fill(Len(pt) + MACBYTES, 128 + Cardinality(ledger))

Seal(ledger, key, nonce, pt) ==
    ledger \cup { [key |-> key, nonce |-> nonce, pt |-> pt,
                   ct |-> Ciphertext(ledger, pt)] }

Open_KeyAndNonceOnly(ledger, key, nonce, ct) ==
    LET hits == { e \in ledger : e.key = key /\ e.nonce = nonce }
    IN  IF hits = {} THEN None ELSE Some((CHOOSE e \in hits : TRUE).pt)

Open(ledger, key, nonce, ct) ==
    LET hits == { e \in ledger : e.key = key /\ e.nonce = nonce /\ e.ct = ct }
    IN  IF hits = {} THEN None ELSE Some((CHOOSE e \in hits : TRUE).pt)

(* The bytes a conforming peer seals for a packet: kind byte, then body;   *)
(* for Data the connection id is the kind byte.                            *)
KindTagged(p) ==
    IF p.type = "Data"
    THEN ToBytes(p)
    ELSE << KindAsU8(PacketKind(p)) >> \o ToBytes(p)

PeerPackets ==
    { p \in Packets : p.type = "Data" => p.connection_id \in 16 .. 239 }

(* Payloads of the TcpPacket values handed to to_bytes. *)
FramePayloads == { Fill(n, 170) : n \in {0, 1, 100, U16 - 1, U16, U16 + 1} }

(* Where the transport may cut a frame. *)
CutPoints(frame) ==
    {0, 1, 2, 3, Len(frame) \div 2 + 1, Len(frame) - 1, Len(frame)}
        \cap (0 .. Len(frame))

FrameKey == "common_shared"

FrameNonce == "recv_nonce"

(***************************************************************************)
(* The handshake messages: struct Client, struct Server, struct Payload.   *)
(***************************************************************************)
Client_to_bytes(m) == m.pk \o m.nonce \o m.payload

Client_nom_parse_bytes(bytes) ==
    LET pk == PublicKey_nom_parse_bytes(bytes)
    IN  IF ~IsDone(pk) THEN pk
        ELSE LET nonce == Nonce_nom_parse_bytes(pk.rest)
             IN  IF ~IsDone(nonce) THEN nonce
                 ELSE LET payload == TakeBytes(nonce.rest, SEALEDBYTES)
                      IN  IF ~IsDone(payload) THEN payload
                          ELSE Done([pk |-> pk.value, nonce |-> nonce.value,
                                     payload |-> payload.value], payload.rest)

Server_to_bytes(m) == m.nonce \o m.payload

Server_nom_parse_bytes(bytes) ==
    LET nonce == Nonce_nom_parse_bytes(bytes)
    IN  IF ~IsDone(nonce) THEN nonce
        ELSE LET payload == TakeBytes(nonce.rest, SEALEDBYTES)
             IN  IF ~IsDone(payload) THEN payload
                 ELSE Done([nonce |-> nonce.value, payload |-> payload.value],
                           payload.rest)

Payload_to_bytes_NonceFirst(m) == m.session_nonce \o m.session_pk

Payload_to_bytes(m) == m.session_pk \o m.session_nonce

Payload_nom_parse_bytes(bytes) ==
    LET pk == PublicKey_nom_parse_bytes(bytes)
    IN  IF ~IsDone(pk) THEN pk
        ELSE LET nonce == Nonce_nom_parse_bytes(pk.rest)
             IN  IF ~IsDone(nonce) THEN nonce
                 ELSE Done([session_pk |-> pk.value,
                            session_nonce |-> nonce.value], nonce.rest)

(***************************************************************************)
(* Keys and nonces.  A secret key is a number and PkOf gives its public    *)
(* key; encrypt_precompute(pk, sk) is the Diffie-Hellman value of the two  *)
(* key pairs, the same from either side.  random nonce() and               *)
(* crypto_box_keypair() draw from small pools.                             *)
(***************************************************************************)
ClientSk == 1

ServerSk == 2

EphemeralSks == {3, 4}

NonceOf(n) == Fill(NONCEBYTES, n)

RandomNonces == { NonceOf(n) : n \in {1, 2} }

encrypt_precompute(pk, sk) == { pk, PkOf(sk) }

NoKey == {}

NoNonce == << >>

NoSk == 0

(***************************************************************************)
(* Handshake states of the two sides.                                      *)
(***************************************************************************)
ClientStart ==
    [state |-> "Start", sent_nonce |-> NoNonce, temp_sk |-> NoSk,
     shared_key |-> NoKey, recv_nonce |-> NoNonce,
     common_shared_key |-> NoKey, error |-> "none"]

ServerIdle ==
    [state |-> "Idle", sent_nonce |-> NoNonce, recv_nonce |-> NoNonce,
     common_shared_key |-> NoKey, client_pk |-> << >>, error |-> "none"]

Failed(side, error) == [side EXCEPT !.state = "Failed", !.error = error]

Rejected(side) == [side EXCEPT !.error = "UnexpectedMessage"]

(***************************************************************************)
(* Step 1: the client's state and message, for the values it draws.        *)
(***************************************************************************)
Step1State(temp_client_sk, client_sent_nonce) ==
    [ClientStart EXCEPT !.state = "AwaitingResponse",
                        !.sent_nonce = client_sent_nonce,
                        !.temp_sk = temp_client_sk,
                        !.shared_key = encrypt_precompute(PkOf(ServerSk), ClientSk)]

Step1Payload(temp_client_sk, client_sent_nonce) ==
    Payload_to_bytes([session_pk |-> PkOf(temp_client_sk),
                      session_nonce |-> client_sent_nonce])

Step1Packet(ledger, temp_client_sk, client_sent_nonce, nonce) ==
    Client_to_bytes(
        [pk |-> PkOf(ClientSk), nonce |-> nonce,
         payload |-> Ciphertext(ledger,
                                Step1Payload(temp_client_sk, client_sent_nonce))])

(***************************************************************************)
(* Step 2: what the server stores and sends for an opened client payload.  *)
(***************************************************************************)
Step2State(srv, client_pk, payload, temp_server_sk, server_sent_nonce) ==
    [srv EXCEPT !.state = "Established",
                !.sent_nonce = server_sent_nonce,
                !.recv_nonce = payload.session_nonce,
                !.common_shared_key =
                    encrypt_precompute(payload.session_pk, temp_server_sk),
                !.client_pk = client_pk]

Step2Payload(temp_server_sk, server_sent_nonce) ==
    Payload_to_bytes([session_pk |-> PkOf(temp_server_sk),
                      session_nonce |-> server_sent_nonce])

Step2Packet(ledger, temp_server_sk, server_sent_nonce, nonce) ==
    Server_to_bytes(
        [nonce |-> nonce,
         payload |-> Ciphertext(ledger,
                                Step2Payload(temp_server_sk, server_sent_nonce))])

(***************************************************************************)
(* Step 3: what the client stores for an opened server payload; the        *)
(* temporary secret key is removed.                                        *)
(***************************************************************************)
Step3State(cli, payload) ==
    [cli EXCEPT !.state = "Established",
                !.recv_nonce = payload.session_nonce,
                !.common_shared_key =
                    encrypt_precompute(payload.session_pk, cli.temp_sk),
                !.temp_sk = NoSk]

(***************************************************************************)
(* advance(state, inbound) of the responder: a client message is taken     *)
(* only in Idle; a message that does not parse or does not open is         *)
(* terminal.  The result is the new state, the ledger and the outbound     *)
(* messages.                                                               *)
(***************************************************************************)
Stays(side, ledger) == [side |-> side, ledger |-> ledger, out |-> << >>]

ServerAccepts(srv, ledger, msg, temp_server_sk, server_sent_nonce, nonce) ==
    LET m == Client_nom_parse_bytes(msg)
    IN  IF ~IsDone(m) THEN Stays(Failed(srv, "ParseError"), ledger)
        ELSE
        LET shared_key == encrypt_precompute(m.value.pk, ServerSk)
            opened == Open(ledger, shared_key, m.value.nonce, m.value.payload)
        IN  IF ~IsSome(opened) THEN Stays(Failed(srv, "AuthFailure"), ledger)
            ELSE
            LET payload == Payload_nom_parse_bytes(opened.value)
            IN  IF ~IsDone(payload)
                THEN Stays(Failed(srv, "ParseError"), ledger)
                ELSE [side |-> Step2State(srv, m.value.pk, payload.value,
                                          temp_server_sk, server_sent_nonce),
                      ledger |-> Seal(ledger, shared_key, nonce,
                                      Step2Payload(temp_server_sk,
                                                   server_sent_nonce)),
                      out |-> << Step2Packet(ledger, temp_server_sk,
                                             server_sent_nonce, nonce) >>]

ServerAdvance_AnyState(srv, ledger, msg, temp_server_sk, server_sent_nonce, nonce) ==
    ServerAccepts(srv, ledger, msg, temp_server_sk, server_sent_nonce, nonce)

ServerAdvance(srv, ledger, msg, temp_server_sk, server_sent_nonce, nonce) ==
    IF srv.state # "Idle"
    THEN Stays(Rejected(srv), ledger)
    ELSE ServerAccepts(srv, ledger, msg, temp_server_sk, server_sent_nonce,
                       nonce)

(***************************************************************************)
(* advance(state, inbound) of the initiator: a server message is taken     *)
(* only in AwaitingResponse.                                               *)
(***************************************************************************)
ClientAdvance(cli, ledger, msg) ==
    IF cli.state # "AwaitingResponse"
    THEN Stays(Rejected(cli), ledger)
    ELSE
    LET m == Server_nom_parse_bytes(msg)
    IN  IF ~IsDone(m) THEN Stays(Failed(cli, "ParseError"), ledger)
        ELSE
        LET opened == Open(ledger, cli.shared_key, m.value.nonce,
                           m.value.payload)
        IN  IF ~IsSome(opened) THEN Stays(Failed(cli, "AuthFailure"), ledger)
            ELSE
            LET payload == Payload_nom_parse_bytes(opened.value)
            IN  IF ~IsDone(payload)
                THEN Stays(Failed(cli, "ParseError"), ledger)
                ELSE Stays(Step3State(cli, payload.value), ledger)

(***************************************************************************)
(* What the network may do to a message in flight.                         *)
(***************************************************************************)
MaxMeddle == 1

FlipBit(b, k) == IF (b \div (2 ^ k)) % 2 = 1 THEN b - 2 ^ k ELSE b + 2 ^ k

FlipAt(msg, i, k) == [msg EXCEPT ![i] = FlipBit(msg[i], k)]

TamperAt == {1, SEALEDBYTES \div 2, SEALEDBYTES}

ForgedServerMessage ==
    Server_to_bytes([nonce |-> NonceOf(1), payload |-> Fill(SEALEDBYTES, 0)])

VARIABLES
    kindIn,     \* the byte last given to the classifier, -1 before any call
    kindOut,    \* what Kind::nom_parse_bytes returned for it
    pkt,        \* the packet the caller holds
    ser,        \* its to_bytes(), once called
    parsed,     \* the parse of a prefix of ser: type, length, result
    sealed,     \* the ledger of the Crypto Port
    frame,      \* the frame a sender put on the transport
    wire,       \* the bytes of it the transport has delivered
    decoded,    \* what TcpPacket::nom_parse_bytes returned for wire
    emitted,    \* a TcpPacket given to to_bytes, and the bytes written
    outcome,    \* the result of TcpPacket::new or extract, once called
    client,     \* the initiator's handshake state
    server,     \* the responder's handshake state
    c2s,        \* messages in flight from the client to the server
    s2c,        \* messages in flight from the server to the client
    meddled     \* how often the network has altered the traffic

codecVars == << kindIn, kindOut, pkt, ser, parsed >>

frameVars == << frame, wire, decoded, emitted, outcome >>

hsVars == << client, server, c2s, s2c, meddled >>

vars == << codecVars, sealed, frameVars, hsVars >>

Untouched ==
    /\ kindIn = -1
    /\ kindOut = None
    /\ pkt = None
    /\ ser = None
    /\ parsed = None
    /\ sealed = {}
    /\ frame = None
    /\ wire = None
    /\ decoded = None
    /\ emitted = None
    /\ outcome = None
    /\ client = ClientStart
    /\ server = ServerIdle
    /\ c2s = << >>
    /\ s2c = << >>
    /\ meddled = 0

(***************************************************************************)
(* The classifier, called with every byte.                                 *)
(***************************************************************************)
InitKind == Untouched

Classify(b) ==
    /\ kindIn' = b
    /\ kindOut' = Some(Kind_nom_parse_bytes(<< b >>))
    /\ UNCHANGED << pkt, ser, parsed, sealed, frameVars, hsVars >>

NextKind == \E b \in Byte : Classify(b)

SpecKind == InitKind /\ [][NextKind]_vars

(***************************************************************************)
(* The codecs: the caller holds a packet, serializes it, and parses a      *)
(* prefix of the bytes as some packet type.                                *)
(***************************************************************************)
InitCodec ==
    /\ kindIn = -1
    /\ kindOut = None
    /\ pkt \in { Some(p) : p \in Packets }
    /\ ser = None
    /\ parsed = None
    /\ sealed = {}
    /\ frame = None
    /\ wire = None
    /\ decoded = None
    /\ emitted = None
    /\ outcome = None
    /\ client = ClientStart
    /\ server = ServerIdle
    /\ c2s = << >>
    /\ s2c = << >>
    /\ meddled = 0

Serialize ==
    /\ IsSome(pkt)
    /\ ser = None
    /\ ser' = Some(ToBytes(pkt.value))
    /\ UNCHANGED << kindIn, kindOut, pkt, parsed, sealed, frameVars, hsVars >>

Parse(type, n) ==
    /\ IsSome(ser)
    /\ parsed = None
    /\ n <= Len(ser.value)
    /\ parsed' = Some([type |-> type, n |-> n,
                       result |-> NomParseBytes(type, Take(ser.value, n))])
    /\ UNCHANGED << kindIn, kindOut, pkt, ser, sealed, frameVars, hsVars >>

MaxSer == 1 + PUBLICKEYBYTES + MaxData

NextCodec ==
    \/ Serialize
    \/ \E type \in PacketTypes : \E n \in 0 .. MaxSer : Parse(type, n)

SpecCodec == InitCodec /\ [][NextCodec]_vars

(***************************************************************************)
(* The frame.  A peer seals a kind-tagged packet and frames it, or the     *)
(* caller writes a TcpPacket with to_bytes; the transport delivers a       *)
(* prefix of the frame; the prefix is parsed; the parsed TcpPacket is      *)
(* written again or extracted.  A panic ends the run.                      *)
(***************************************************************************)
InitFrame == Untouched

Running == outcome.tag # "Panic"

PeerSendsFrame(p) ==
    /\ Running
    /\ frame = None
    /\ sealed' = Seal(sealed, FrameKey, FrameNonce, KindTagged(p))
    /\ frame' = Some(write_u16_BigEndian(Len(Ciphertext(sealed, KindTagged(p))))
                     \o Ciphertext(sealed, KindTagged(p)))
    /\ UNCHANGED << codecVars, hsVars, wire, decoded, emitted, outcome >>

WriteTcpPacket(payload) ==
    /\ Running
    /\ frame = None
    /\ LET t == [packet_type |-> "RouteRequest", payload |-> payload]
       IN  /\ emitted' = Some([packet |-> t, bytes |-> TcpPacket_to_bytes(t)])
           /\ frame' = Some(TcpPacket_to_bytes(t))
    /\ UNCHANGED << codecVars, hsVars, sealed, wire, decoded, outcome >>

Deliver ==
    /\ Running
    /\ IsSome(frame)
    /\ wire = None
    /\ \E n \in CutPoints(frame.value) : wire' = Some(Take(frame.value, n))
    /\ UNCHANGED << codecVars, hsVars, sealed, frame, decoded, emitted, outcome >>

ParseTcpPacket ==
    /\ Running
    /\ IsSome(wire)
    /\ decoded = None
    /\ decoded' = Some(TcpPacket_nom_parse_bytes(wire.value))
    /\ UNCHANGED << codecVars, hsVars, sealed, frame, wire, emitted, outcome >>

RewriteTcpPacket ==
    /\ Running
    /\ IsSome(decoded)
    /\ IsDone(decoded.value)
    /\ emitted = None
    /\ emitted' = Some([packet |-> decoded.value.value,
                        bytes |-> TcpPacket_to_bytes(decoded.value.value)])
    /\ UNCHANGED << codecVars, hsVars, sealed, frame, wire, decoded, outcome >>

ExtractTcpPacket(type) ==
    /\ Running
    /\ IsSome(decoded)
    /\ IsDone(decoded.value)
    /\ outcome' = TcpPacket_extract(decoded.value.value, type)
    /\ UNCHANGED << codecVars, hsVars, sealed, frame, wire, decoded, emitted >>

NewTcpPacket(p) ==
    /\ Running
    /\ frame = None
    /\ outcome' = TcpPacket_new(p)
    /\ UNCHANGED << codecVars, hsVars, sealed, frame, wire, decoded, emitted >>

NextFrame ==
    \/ \E p \in PeerPackets : PeerSendsFrame(p)
    \/ \E payload \in FramePayloads : WriteTcpPacket(payload)
    \/ Deliver
    \/ ParseTcpPacket
    \/ RewriteTcpPacket
    \/ \E type \in PacketTypes : ExtractTcpPacket(type)
    \/ \E p \in Packets : NewTcpPacket(p)

SpecFrame == InitFrame /\ [][NextFrame]_vars

(***************************************************************************)
(* The handshake of one connection over a network that may flip a bit of   *)
(* an encrypted payload, cut a message short, deliver a message twice or   *)
(* send the client a message of its own making.                            *)
(***************************************************************************)
InitHandshake == Untouched

ClientBegin(temp_client_sk, client_sent_nonce, nonce) ==
    /\ client.state = "Start"
    /\ client' = Step1State(temp_client_sk, client_sent_nonce)
    /\ sealed' = Seal(sealed, encrypt_precompute(PkOf(ServerSk), ClientSk),
                      nonce, Step1Payload(temp_client_sk, client_sent_nonce))
    /\ c2s' = Append(c2s, Step1Packet(sealed, temp_client_sk,
                                      client_sent_nonce, nonce))
    /\ UNCHANGED << codecVars, frameVars, server, s2c, meddled >>

ServerReceives(temp_server_sk, server_sent_nonce, nonce) ==
    /\ c2s # << >>
    /\ LET r == ServerAdvance(server, sealed, Head(c2s), temp_server_sk,
                              server_sent_nonce, nonce)
       IN  /\ server' = r.side
           /\ sealed' = r.ledger
           /\ s2c' = s2c \o r.out
    /\ c2s' = Tail(c2s)
    /\ UNCHANGED << codecVars, frameVars, client, meddled >>

ClientReceives ==
    /\ s2c # << >>
    /\ LET r == ClientAdvance(client, sealed, Head(s2c))
       IN  /\ client' = r.side
           /\ sealed' = r.ledger
    /\ s2c' = Tail(s2c)
    /\ UNCHANGED << codecVars, frameVars, server, c2s, meddled >>

Meddles ==
    /\ meddled < MaxMeddle
    /\ meddled' = meddled + 1
    /\ UNCHANGED << codecVars, sealed, frameVars, client, server >>

TamperClientMessage(i, k) ==
    /\ Meddles
    /\ c2s # << >>
    /\ Len(Head(c2s)) >= PUBLICKEYBYTES + NONCEBYTES + i
    /\ c2s' = << FlipAt(Head(c2s), PUBLICKEYBYTES + NONCEBYTES + i, k) >>
                  \o Tail(c2s)
    /\ UNCHANGED s2c

TamperServerMessage(i, k) ==
    /\ Meddles
    /\ s2c # << >>
    /\ Len(Head(s2c)) >= NONCEBYTES + i
    /\ s2c' = << FlipAt(Head(s2c), NONCEBYTES + i, k) >> \o Tail(s2c)
    /\ UNCHANGED c2s

CutClientMessage ==
    /\ Meddles
    /\ c2s # << >>
    /\ \E n \in CutPoints(Head(c2s)) \ {Len(Head(c2s))} :
           c2s' = << Take(Head(c2s), n) >> \o Tail(c2s)
    /\ UNCHANGED s2c

CutServerMessage ==
    /\ Meddles
    /\ s2c # << >>
    /\ \E n \in CutPoints(Head(s2c)) \ {Len(Head(s2c))} :
           s2c' = << Take(Head(s2c), n) >> \o Tail(s2c)
    /\ UNCHANGED c2s

DuplicateClientMessage ==
    /\ Meddles
    /\ c2s # << >>
    /\ c2s' = Append(c2s, Head(c2s))
    /\ UNCHANGED s2c

DuplicateServerMessage ==
    /\ Meddles
    /\ s2c # << >>
    /\ s2c' = Append(s2c, Head(s2c))
    /\ UNCHANGED c2s

InjectServerMessage ==
    /\ Meddles
    /\ s2c' = Append(s2c, ForgedServerMessage)
    /\ UNCHANGED c2s

NextHandshake ==
    \/ \E sk \in EphemeralSks : \E sent, nonce \in RandomNonces :
           ClientBegin(sk, sent, nonce)
    \/ \E sk \in EphemeralSks : \E sent, nonce \in RandomNonces :
           ServerReceives(sk, sent, nonce)
    \/ ClientReceives
    \/ \E i \in TamperAt : \E k \in 0 .. 7 : TamperClientMessage(i, k)
    \/ \E i \in TamperAt : \E k \in 0 .. 7 : TamperServerMessage(i, k)
    \/ CutClientMessage
    \/ CutServerMessage
    \/ DuplicateClientMessage
    \/ DuplicateServerMessage
    \/ InjectServerMessage

SpecHandshake == InitHandshake /\ [][NextHandshake]_vars

(***************************************************************************)
(* C1 (as amended): classification is total over the 256 byte values: a    *)
(* byte in [16,240) gives Kind::Data, a byte in 0..9 gives the control     *)
(* kind whose number is the byte, and a byte in 10..15 or 240..255 fails   *)
(* and gives no kind.  Kind::Data carries no connection id.                *)
(***************************************************************************)
C1_ClassifierPartition ==
    IsSome(kindOut) =>
        LET r == kindOut.value
        IN  /\ kindIn \in 16 .. 239 => r = Done("Data", << >>)
            /\ kindIn \in 0 .. 9 =>
                   /\ r = Done(ControlKinds[kindIn + 1], << >>)
                   /\ KindAsU8(r.value) = kindIn
            /\ kindIn \in (10 .. 15) \cup (240 .. 255) => r = ParseError

C1_Witness ==
    /\ IsSome(kindOut)
    /\ kindIn = 239
    /\ kindOut.value = Done("Data", << >>)

(* C1 as stated: moreover the result for a byte b in [16,240) is Data(b),  *)
(* so it tells b from every other connection id.                           *)
C1_DataCarriesId ==
    /\ C1_ClassifierPartition
    /\ (IsSome(kindOut) /\ kindIn \in 16 .. 239) =>
           \A other \in (16 .. 239) \ {kindIn} :
               Kind_nom_parse_bytes(<< other >>) # kindOut.value

(***************************************************************************)
(* C3: the bytes serialized for a packet p are kind-tagged: the first      *)
(* byte classifies to p.kind().                                            *)
(***************************************************************************)
C3_SerializationKindTagged ==
    IsSome(ser) =>
        /\ Len(ser.value) >= 1
        /\ KindOfByte(ser.value[1]) = PacketKind(pkt.value)

(***************************************************************************)
(* C6: for a packet p of a fixed-layout kind, parsing to_bytes(p) as p's   *)
(* type gives p back and leaves no byte; ping_id travels as 8 little-      *)
(* endian bytes.                                                           *)
(***************************************************************************)
C6_RoundTrip ==
    (/\ IsSome(parsed)
     /\ pkt.value.type \in FixedTypes
     /\ parsed.value.type = pkt.value.type
     /\ parsed.value.n = Len(ser.value)) =>
        /\ parsed.value.result = Done(pkt.value, << >>)
        /\ pkt.value.type \in {"PingRequest", "PongResponse"} =>
               \A i \in 1 .. 8 :
                   ser.value[i] = U64Byte(pkt.value.ping_id, i - 1)

C6_Witness ==
    /\ IsSome(parsed)
    /\ pkt.value = [type |-> "PingRequest",
                    ping_id |-> << MaxLimb, MaxLimb, MaxLimb, MaxLimb >>]
    /\ parsed.value.type = "PingRequest"
    /\ parsed.value.n = Len(ser.value)
    /\ parsed.value.result = Done(pkt.value, << >>)

(***************************************************************************)
(* C2: the kind a decoded TcpPacket reports is the classification of the   *)
(* first byte of its decrypted payload.                                    *)
(***************************************************************************)
C2_KindFromPlaintext ==
    (IsSome(decoded) /\ IsDone(decoded.value)) =>
        LET t == decoded.value.value
            plain == Open(sealed, FrameKey, FrameNonce, t.payload)
        IN  (IsSome(plain) /\ Len(plain.value) >= 1) =>
                TcpPacket_kind(t) = KindOfByte(plain.value[1])

(***************************************************************************)
(* C4: a TcpPacket whose payload has n bytes, n within the u16 field, is   *)
(* written as n + 2 bytes: n big-endian, then the payload unchanged.       *)
(* Bytes that hold less than the two length bytes, or less payload than    *)
(* the length announces, parse to Incomplete and to no packet.             *)
(***************************************************************************)
Announced(bytes) == bytes[1] * U8 + bytes[2]

C4_FrameLayout ==
    /\ IsSome(emitted) =>
           LET n == Len(emitted.value.packet.payload)
               out == emitted.value.bytes
           IN  /\ Len(out) = n + 2
               /\ Drop(out, 2) = emitted.value.packet.payload
               /\ n < U16 => Announced(out) = n
    /\ (/\ IsSome(decoded)
        /\ \/ Len(wire.value) < 2
           \/ Len(wire.value) - 2 < Announced(wire.value)) =>
           decoded.value = Incomplete

C4_Witness ==
    /\ IsSome(emitted)
    /\ Len(emitted.value.packet.payload) = 100
    /\ emitted.value.bytes = << 0, 100 >> \o emitted.value.packet.payload
    /\ IsSome(decoded)
    /\ Len(wire.value) = 52
    /\ decoded.value = Incomplete

(***************************************************************************)
(* C5: a payload longer than 65535 bytes is rejected and nothing is        *)
(* written; so the length prefix of every frame written is the number of   *)
(* bytes that follow it.                                                   *)
(***************************************************************************)
C5_LengthPrefixExact ==
    IsSome(emitted) =>
        /\ Len(emitted.value.packet.payload) < U16
        /\ Announced(emitted.value.bytes) = Len(emitted.value.bytes) - 2

(***************************************************************************)
(* C7: when both sides are Established they hold the same                  *)
(* common_shared_key, it is the Diffie-Hellman value of two ephemeral key  *)
(* pairs, and each side's receive nonce is the sent nonce the peer drew.   *)
(***************************************************************************)
EphemeralSharedKeys ==
    { encrypt_precompute(PkOf(a), b) : a, b \in EphemeralSks }

C7_SameSessionKey ==
    (client.state = "Established" /\ server.state = "Established") =>
        /\ client.common_shared_key = server.common_shared_key
        /\ client.common_shared_key \in EphemeralSharedKeys
        /\ client.recv_nonce = server.sent_nonce
        /\ server.recv_nonce = client.sent_nonce

C7_Witness ==
    /\ client.state = "Established"
    /\ server.state = "Established"
    /\ client.common_shared_key = server.common_shared_key
    /\ Cardinality(client.common_shared_key) = 2
    /\ client.sent_nonce # server.sent_nonce
    /\ client.recv_nonce = server.sent_nonce

(***************************************************************************)
(* C8: a client or server handshake message that is short, or whose        *)
(* encrypted_payload is not a sealed value, takes the side that receives   *)
(* it in its step to Failed with nothing sent; a Failed side holds no      *)
(* session state and stays Failed.                                         *)
(***************************************************************************)
SealedValues == { e.ct : e \in sealed }

BadMessage(msg, offset) ==
    \/ Len(msg) < offset + SEALEDBYTES
    \/ SubSeq(msg, offset + 1, offset + SEALEDBYTES) \notin SealedValues

NoSession(side) ==
    /\ side.common_shared_key = NoKey
    /\ side.recv_nonce = NoNonce

ServerTakes == c2s # << >> /\ c2s' = Tail(c2s)

ClientTakes == s2c # << >> /\ s2c' = Tail(s2c)

C8_TamperedHandshakeFails ==
    /\ [][(/\ ServerTakes
           /\ server.state = "Idle"
           /\ BadMessage(Head(c2s), PUBLICKEYBYTES + NONCEBYTES)) =>
              (server'.state = "Failed" /\ s2c' = s2c)]_vars
    /\ [][(/\ ClientTakes
           /\ client.state = "AwaitingResponse"
           /\ BadMessage(Head(s2c), NONCEBYTES)) =>
              client'.state = "Failed"]_vars
    /\ [][/\ client.state = "Failed" => client'.state = "Failed"
          /\ server.state = "Failed" => server'.state = "Failed"]_vars
    /\ [](/\ client.state = "Failed" => NoSession(client)
          /\ server.state = "Failed" => NoSession(server))

C8_Witness ==
    /\ server.state = "Established"
    /\ client.state = "Failed"
    /\ client.error = "AuthFailure"
    /\ meddled = 1

(***************************************************************************)
(* C10: a handshake message that reaches a side outside its step, a        *)
(* duplicate after the side advanced or a server message before the        *)
(* client began, is rejected: nothing is sent and the side's state, key    *)
(* and nonces stay as they were; an Established side keeps its key and     *)
(* nonces for good.                                                        *)
(***************************************************************************)
Session(side) ==
    << side.state, side.common_shared_key, side.recv_nonce, side.sent_nonce >>

C10_OutOfStepRejected ==
    /\ [][(ServerTakes /\ server.state # "Idle") =>
              /\ Session(server') = Session(server)
              /\ server'.error = "UnexpectedMessage"
              /\ s2c' = s2c]_vars
    /\ [][(ClientTakes /\ client.state # "AwaitingResponse") =>
              /\ Session(client') = Session(client)
              /\ client'.error = "UnexpectedMessage"]_vars
    /\ [][/\ server.state = "Established" => Session(server') = Session(server)
          /\ client.state = "Established" => Session(client') = Session(client)]_vars

C10_Witness ==
    /\ server.state = "Established"
    /\ server.error = "UnexpectedMessage"
    /\ client.state = "Established"

(***************************************************************************)
(* C11: every Data packet obtained by parsing has its connection_id in     *)
(* [16,240): bytes whose first byte lies outside that range never parse    *)
(* to a Data packet, and after an id byte in the range any number of       *)
(* bytes, also none, is taken as the data.                                 *)
(***************************************************************************)
C11_DataIdInRange ==
    (IsSome(parsed) /\ parsed.value.type = "Data") =>
        LET input == Take(ser.value, parsed.value.n)
            r == parsed.value.result
        IN  /\ IsDone(r) => r.value.connection_id \in 16 .. 239
            /\ (Len(input) >= 1 /\ input[1] \in 16 .. 239) =>
                   r = Done([type |-> "Data", connection_id |-> input[1],
                             data |-> Drop(input, 1)], << >>)

====
